---- MODULE Spec2Model ----
(***************************************************************************)
(* Image resize service: the request-to-cache pipeline of                  *)
(* src/utils/imageProcessor.ts (validateResizeParams, findImageFile,       *)
(* getFormatOptions, ensureDirectoryExists, resizeImage) and the HTTP      *)
(* adapter of src/routes/api/images.ts, over a file system holding the     *)
(* source directory assets/full and the cache directory assets/thumb.      *)
(***************************************************************************)
EXTENDS Integers, Sequences, FiniteSets, TLC

(***************************************************************************)
(* JavaScript values.  A value is a record [t, n, s]: t is the kind, n the  *)
(* integer of a finite number, s the text of a string.                      *)
(***************************************************************************)
Undefined == [t |-> "undefined", n |-> 0, s |-> ""]
Null      == [t |-> "null",      n |-> 0, s |-> ""]
NaN       == [t |-> "nan",       n |-> 0, s |-> ""]
PosInf    == [t |-> "inf",       n |-> 0, s |-> ""]
NegInf    == [t |-> "ninf",      n |-> 0, s |-> ""]
Num(k)    == [t |-> "num",       n |-> k, s |-> ""]
Str(x)    == [t |-> "str",       n |-> 0, s |-> x]

IsNumeric(v) == v.t \in {"num", "nan", "inf", "ninf"}

\* JavaScript ToBoolean: what `!v` and `a || b` test.
Truthy(v) ==
    CASE v.t = "undefined" -> FALSE
      [] v.t = "null"      -> FALSE
      [] v.t = "nan"       -> FALSE
      [] v.t = "num"       -> v.n # 0
      [] v.t = "str"       -> v.s # ""
      [] OTHER             -> TRUE

(***************************************************************************)
(* Strings.                                                                 *)
(***************************************************************************)
Head1(s) == SubSeq(s, 1, 1)
Tail1(s) == SubSeq(s, 2, Len(s))
Last1(s) == SubSeq(s, Len(s), Len(s))
Front1(s) == SubSeq(s, 1, Len(s) - 1)

\* String.prototype.includes
Includes(s, sub) ==
    \E i \in 1..(Len(s) + 1 - Len(sub)) : SubSeq(s, i, i + Len(sub) - 1) = sub

\* String.prototype.trim (the white space of the model's alphabet is " ")
RECURSIVE TrimLeft(_)
TrimLeft(s) == IF s # "" /\ Head1(s) = " " THEN TrimLeft(Tail1(s)) ELSE s
RECURSIVE TrimRight(_)
TrimRight(s) == IF s # "" /\ Last1(s) = " " THEN TrimRight(Front1(s)) ELSE s
Trim(s) == TrimRight(TrimLeft(s))

LowerChar(c) ==
    CASE c = "A" -> "a" [] c = "B" -> "b" [] c = "C" -> "c" [] c = "D" -> "d"
      [] c = "E" -> "e" [] c = "F" -> "f" [] c = "G" -> "g" [] c = "H" -> "h"
      [] c = "I" -> "i" [] c = "J" -> "j" [] c = "K" -> "k" [] c = "L" -> "l"
      [] c = "M" -> "m" [] c = "N" -> "n" [] c = "O" -> "o" [] c = "P" -> "p"
      [] c = "Q" -> "q" [] c = "R" -> "r" [] c = "S" -> "s" [] c = "T" -> "t"
      [] c = "U" -> "u" [] c = "V" -> "v" [] c = "W" -> "w" [] c = "X" -> "x"
      [] c = "Y" -> "y" [] c = "Z" -> "z" [] OTHER -> c

\* String.prototype.toLowerCase
RECURSIVE ToLowerCase(_)
ToLowerCase(s) ==
    IF s = "" THEN "" ELSE LowerChar(Head1(s)) \o ToLowerCase(Tail1(s))

DigitValue(c) ==
    CASE c = "0" -> 0 [] c = "1" -> 1 [] c = "2" -> 2 [] c = "3" -> 3
      [] c = "4" -> 4 [] c = "5" -> 5 [] c = "6" -> 6 [] c = "7" -> 7
      [] c = "8" -> 8 [] c = "9" -> 9 [] OTHER -> -1

RECURSIVE AllDigits(_)
AllDigits(s) == s = "" \/ (DigitValue(Head1(s)) >= 0 /\ AllDigits(Tail1(s)))

RECURSIVE DigitsValue(_)
DigitsValue(s) ==
    IF s = "" THEN 0 ELSE 10 * DigitsValue(Front1(s)) + DigitValue(Last1(s))

\* Number(string): StringToNumber on the trimmed text.
StringToNumber(s) ==
    LET x == Trim(s) IN
    CASE x = ""                                   -> Num(0)
      [] x = "Infinity" \/ x = "+Infinity"        -> PosInf
      [] x = "-Infinity"                          -> NegInf
      [] AllDigits(x)                             -> Num(DigitsValue(x))
      [] Head1(x) = "-" /\ Tail1(x) # "" /\ AllDigits(Tail1(x))
                                                  -> Num(0 - DigitsValue(Tail1(x)))
      [] Head1(x) = "+" /\ Tail1(x) # "" /\ AllDigits(Tail1(x))
                                                  -> Num(DigitsValue(Tail1(x)))
      [] OTHER                                    -> NaN

\* Number(v)
ToNumber(v) ==
    CASE v.t = "undefined" -> NaN
      [] v.t = "null"      -> Num(0)
      [] v.t = "str"       -> StringToNumber(v.s)
      [] OTHER             -> v

\* String(v), as a template literal `${v}` renders it.
ToStr(v) ==
    CASE v.t = "undefined" -> "undefined"
      [] v.t = "null"      -> "null"
      [] v.t = "nan"       -> "NaN"
      [] v.t = "inf"       -> "Infinity"
      [] v.t = "ninf"      -> "-Infinity"
      [] v.t = "num"       -> ToString(v.n)
      [] OTHER             -> v.s

\* isNaN(x) for a number x
IsNaN(x) == x.t = "nan"

\* x <= 0 for a number x (false for NaN)
LeqZero(x) == x.t = "ninf" \/ (x.t = "num" /\ x.n <= 0)

\* path.join of two segments
PathJoin(a, b) == a \o "/" \o b

(***************************************************************************)
(* imageProcessor.ts: constants and pure functions.                         *)
(***************************************************************************)
SUPPORTED_FORMATS == <<"jpg", "jpeg", "png", "webp", "gif", "tiff", "avif">>

Cwd      == "/app"
FullDir  == PathJoin(PathJoin(Cwd, "assets"), "full")
ThumbDir == PathJoin(PathJoin(Cwd, "assets"), "thumb")

MsgFilenameRequired == "Filename is required"
MsgBothRequired     == "Both width and height parameters are required"
MsgValidNumbers     == "Width and height must be valid numbers"
MsgPositiveNumbers  == "Width and height must be positive numbers"
MsgUnknownError     == "An unknown error occurred during image processing"

\* SUPPORTED_FORMATS.join(', ')
RECURSIVE JoinFrom(_, _, _)
JoinFrom(seq, i, sep) ==
    IF i > Len(seq) THEN ""
    ELSE IF i = Len(seq) THEN seq[i]
    ELSE seq[i] \o sep \o JoinFrom(seq, i + 1, sep)
Join(seq, sep) == JoinFrom(seq, 1, sep)

Invalid(msg) == [isValid |-> FALSE, error |-> Str(msg)]
Valid        == [isValid |-> TRUE,  error |-> Undefined]

\* The presence check written as a falsiness test: !width || !height.
validateResizeParamsFalsy(params) ==
    LET widthNum  == ToNumber(params.width)
        heightNum == ToNumber(params.height)
    IN  IF ~Truthy(params.filename) \/ Trim(params.filename.s) = ""
          THEN Invalid(MsgFilenameRequired)
        ELSE IF ~Truthy(params.width) \/ ~Truthy(params.height)
          THEN Invalid(MsgBothRequired)
        ELSE IF IsNaN(widthNum) \/ IsNaN(heightNum)
          THEN Invalid(MsgValidNumbers)
        ELSE IF LeqZero(widthNum) \/ LeqZero(heightNum)
          THEN Invalid(MsgPositiveNumbers)
        ELSE Valid

\* A validator that lets every request through.
validateResizeParamsAcceptAll(params) == Valid

\* The same checks with the number checks ahead of the presence check.
validateResizeParamsReordered(params) ==
    LET widthNum  == ToNumber(params.width)
        heightNum == ToNumber(params.height)
    IN  IF ~Truthy(params.filename) \/ Trim(params.filename.s) = ""
          THEN Invalid(MsgFilenameRequired)
        ELSE IF IsNaN(widthNum) \/ IsNaN(heightNum)
          THEN Invalid(MsgValidNumbers)
        ELSE IF LeqZero(widthNum) \/ LeqZero(heightNum)
          THEN Invalid(MsgPositiveNumbers)
        ELSE IF params.width.t \in {"null", "undefined"}
                \/ params.height.t \in {"null", "undefined"}
          THEN Invalid(MsgBothRequired)
        ELSE Valid

validateResizeParams(params) ==
    LET widthNum  == ToNumber(params.width)
        heightNum == ToNumber(params.height)
    IN  IF ~Truthy(params.filename) \/ Trim(params.filename.s) = ""
          THEN Invalid(MsgFilenameRequired)
        ELSE IF params.width.t \in {"null", "undefined"}
                \/ params.height.t \in {"null", "undefined"}
          THEN Invalid(MsgBothRequired)
        ELSE IF IsNaN(widthNum) \/ IsNaN(heightNum)
          THEN Invalid(MsgValidNumbers)
        ELSE IF LeqZero(widthNum) \/ LeqZero(heightNum)
          THEN Invalid(MsgPositiveNumbers)
        ELSE Valid

\* fileExists: fs.access resolves exactly for the paths the directory holds.
fileExists(files, filePath) == filePath \in files

NoImage == [found |-> FALSE, filePath |-> "", extension |-> ""]

\* The probe loop of findImageFile from the i-th supported format on.
RECURSIVE findImageFileFrom(_, _, _, _)
findImageFileFrom(files, baseDir, filename, i) ==
    IF i > Len(SUPPORTED_FORMATS) THEN NoImage
    ELSE LET ext      == SUPPORTED_FORMATS[i]
             filePath == PathJoin(baseDir, filename \o "." \o ext)
         IN  IF fileExists(files, filePath)
               THEN [found |-> TRUE, filePath |-> filePath, extension |-> ext]
               ELSE findImageFileFrom(files, baseDir, filename, i + 1)

\* The probe loop keeping the last match instead of returning the first.
RECURSIVE findImageFileLastFrom(_, _, _, _)
findImageFileLastFrom(files, baseDir, filename, i) ==
    IF i < 1 THEN NoImage
    ELSE LET ext      == SUPPORTED_FORMATS[i]
             filePath == PathJoin(baseDir, filename \o "." \o ext)
         IN  IF fileExists(files, filePath)
               THEN [found |-> TRUE, filePath |-> filePath, extension |-> ext]
               ELSE findImageFileLastFrom(files, baseDir, filename, i - 1)
findImageFileLast(files, baseDir, filename) ==
    findImageFileLastFrom(files, baseDir, filename, Len(SUPPORTED_FORMATS))

\* A lookup that reports a .jpg source without probing.
findImageFileAssumed(files, baseDir, filename) ==
    [found |-> TRUE, filePath |-> PathJoin(baseDir, filename \o ".jpg"),
     extension |-> "jpg"]

findImageFile(files, baseDir, filename) ==
    findImageFileFrom(files, baseDir, filename, 1)

QualityDefault   == 90
CompressionLevel == 9

FormatOptions(format, key, value) == [format |-> format, key |-> key, value |-> value]

\* Options in which 'jpg' and 'jpeg' are two cases with two qualities.
getFormatOptionsJpgApart(format) ==
    LET f == ToLowerCase(format) IN
    CASE f = "jpg"               -> FormatOptions("jpeg", "quality", QualityDefault - 10)
      [] f = "jpeg"              -> FormatOptions("jpeg", "quality", QualityDefault)
      [] f = "png"               -> FormatOptions("png", "compressionLevel", CompressionLevel)
      [] f = "webp"              -> FormatOptions("webp", "quality", QualityDefault)
      [] f = "gif"               -> FormatOptions("gif", "none", 0)
      [] f = "tiff"              -> FormatOptions("tiff", "quality", QualityDefault)
      [] f = "avif"              -> FormatOptions("avif", "quality", QualityDefault)
      [] OTHER                   -> FormatOptions("jpeg", "quality", QualityDefault)

getFormatOptions(format) ==
    LET f == ToLowerCase(format) IN
    CASE f = "jpg" \/ f = "jpeg" -> FormatOptions("jpeg", "quality", QualityDefault)
      [] f = "png"               -> FormatOptions("png", "compressionLevel", CompressionLevel)
      [] f = "webp"              -> FormatOptions("webp", "quality", QualityDefault)
      [] f = "gif"               -> FormatOptions("gif", "none", 0)
      [] f = "tiff"              -> FormatOptions("tiff", "quality", QualityDefault)
      [] f = "avif"              -> FormatOptions("avif", "quality", QualityDefault)
      [] OTHER                   -> FormatOptions("jpeg", "quality", QualityDefault)

\* The switch without its gif case: gif falls to the default branch.
EncoderInvokedNoGif(sharpFormat) ==
    IF sharpFormat \in {"jpeg", "png", "webp", "tiff", "avif"}
      THEN sharpFormat
      ELSE "jpeg"

\* The encoder the switch of resizeImage invokes for a sharpFormat.
EncoderInvoked(sharpFormat) ==
    IF sharpFormat \in {"jpeg", "png", "webp", "gif", "tiff", "avif"}
      THEN sharpFormat
      ELSE "jpeg"

\* imageFile.extension || format
outputFormatSourceFirst(format, extension) ==
    IF extension # "" THEN extension ELSE format.s

\* format || 'jpg': a fixed default in place of the source's extension.
outputFormatDefaultJpg(format, extension) ==
    IF Truthy(format) THEN ToStr(format) ELSE "jpg"

\* format || imageFile.extension
outputFormatOf(format, extension) ==
    IF Truthy(format) THEN ToStr(format) ELSE extension

\* The extension without the toLowerCase() of the else branch.
outputExtVerbatim(outputFormat) ==
    IF outputFormat = "jpeg" THEN "jpg" ELSE outputFormat

outputExtOf(outputFormat) ==
    IF outputFormat = "jpeg" THEN "jpg" ELSE ToLowerCase(outputFormat)

thumbPathOf(filename, width, height, outputExt) ==
    PathJoin(ThumbDir,
             filename \o "_" \o ToStr(width) \o "x" \o ToStr(height) \o "." \o outputExt)

\* The not-found message without the file name.
notFoundMessageAnonymous(filename) ==
    "Image not found in full folder. Supported formats: "
        \o Join(SUPPORTED_FORMATS, ", ")

notFoundMessage(filename) ==
    "Image '" \o filename \o "' not found in full folder. Supported formats: "
        \o Join(SUPPORTED_FORMATS, ", ")

\* A success result that leaves outputPath out.
SuccessWithoutPath(path, cached) ==
    [success |-> TRUE, outputPath |-> Undefined,
     cached |-> IF cached THEN "true" ELSE "false", error |-> Undefined]

\* ProcessingResult; an absent optional field is Undefined / "absent".
Failure(error) ==
    [success |-> FALSE, outputPath |-> Undefined, cached |-> "absent", error |-> error]
Success(path, cached) ==
    [success |-> TRUE, outputPath |-> Str(path),
     cached |-> IF cached THEN "true" ELSE "false", error |-> Undefined]
NoResult ==
    [success |-> FALSE, outputPath |-> Undefined, cached |-> "absent", error |-> Undefined]


(***************************************************************************)
(* Bounds and input domains.                                                *)
(***************************************************************************)
NumProcs == 2          \* concurrent requests
MaxCalls == 2          \* calls one caller makes in sequence

Procs == 1..NumProcs

SourcePath(filename, ext) == PathJoin(FullDir, filename \o "." \o ext)

\* Source directories of the engine specifications (populated out of band).
SourceDirs ==
    { {},
      {SourcePath("x", "jpg")},
      {SourcePath("x", "jpeg")},
      {SourcePath("x", "png")},
      {SourcePath("x", "jpg"), SourcePath("x", "png")},
      {SourcePath("x", "jpeg"), SourcePath("x", "gif"), SourcePath("x", "avif")},
      {SourcePath("x", "webp"), SourcePath("x", "tiff")},
      {SourcePath("x", "gif")},
      {SourcePath("x", "tiff"), SourcePath("x", "avif")},
      {SourcePath("x", "avif")},
      {SourcePath("y", "png")} }

Params(filename, width, height, format) ==
    [filename |-> filename, width |-> width, height |-> height, format |-> format]

Filenames == {Undefined, Str(""), Str(" "), Str("x")}
Dims      == {Undefined, Null, NaN, PosInf, Num(0), Num(-5), Num(50), Str("abc"), Str("7")}
Formats   == {Undefined, Str(""), Str("jpeg"), Str("JPEG"), Str("jpg"), Str("png"),
              Str("Png"), Str("webp"), Str("gif"), Str("tiff"), Str("avif"), Str("bmp")}

\* Arguments of a direct call of resizeImage by a sequential caller.
SeqParams ==
    { Params(f, w, h, fmt) : f \in Filenames, w \in Dims, h \in Dims, fmt \in Formats }

\* Query strings of GET /api/images: every parameter is absent or a string.
QueryFilenames == {Undefined, Str(""), Str(" "), Str("x")}
QueryDims      == {Undefined, Str(""), Str("0"), Str("50"), Str("abc"), Str("Infinity")}
QueryFormats   == {Undefined, Str(""), Str("jpeg"), Str("png"), Str("bmp")}
SeqQueries ==
    { Params(f, w, h, fmt) :
        f \in QueryFilenames, w \in QueryDims, h \in QueryDims, fmt \in QueryFormats }

\* Requests and source directories of the concurrent specification.
ConcParams ==
    { Params(Str("x"), Num(50), Num(50), Undefined),
      Params(Str("x"), Num(50), Num(50), Str("jpeg")),
      Params(Str("x"), Num(50), Num(50), Str("png")),
      Params(Str("y"), Num(50), Num(50), Undefined) }
ConcSourceDirs ==
    { {SourcePath("x", "jpg")} }

\* Thrown values: an Error with its message, or a value that is no Error.
Err(message) == [isError |-> TRUE,  message |-> message]
NonError     == [isError |-> FALSE, message |-> ""]
MkdirErrors  == { Err("EACCES: permission denied, mkdir '" \o ThumbDir \o "'") }
ResizeError  == Err("Expected positive integer for width or height")
EncodeErrors == { Err("Input file contains unsupported image format"),
                  Err("VipsOperation: class heifsave not found"), Err(""), NonError }

(***************************************************************************)
(* State.                                                                   *)
(***************************************************************************)
VARIABLES
    full,            \* paths of the files of assets/full
    thumbDirExists,  \* does assets/thumb exist
    thumb,           \* the files of assets/thumb: [path, state, format, writer]
    writes,          \* number of writes to assets/thumb so far
    pc,              \* per request: where it stands
    via,             \* per request: "direct" call or "http" request
    query,           \* per request: the query of the HTTP request
    params,          \* per request: the ResizeParams
    imageFile,       \* per request: what findImageFile returned
    outputFormat,    \* per request: local outputFormat
    thumbPath,       \* per request: local thumbPath
    sharpFormat,     \* per request: getFormatOptions(outputFormat)
    settled,         \* per request: state of the promise resizeImage returned
    result,          \* per request: the ProcessingResult
    thrown,          \* per request: exceptions raised inside resizeImage
    ops,             \* per request: file-system and codec operations of this call
    snap,            \* per request: the cache as it was when the call started
    calls,           \* per request: calls started by this caller
    prev,            \* per request: outcome of the caller's previous call
    response,        \* per request: the HTTP response
    arg,             \* input of a pure function
    ret              \* its output

fsVars   == <<full, thumbDirExists, thumb, writes>>
locals   == <<imageFile, outputFormat, thumbPath, sharpFormat>>
callVars == <<via, query, snap, calls, prev>>
pureVars == <<arg, ret>>
vars == <<full, thumbDirExists, thumb, writes, pc, via, query, params, imageFile,
          outputFormat, thumbPath, sharpFormat, settled, result, thrown, ops,
          snap, calls, prev, response, arg, ret>>

NoParams   == Params(Undefined, Undefined, Undefined, Undefined)
NoOptions  == FormatOptions("", "none", 0)
NoSnap     == [files |-> {}, writes |-> 0]
NoPrev     == [called |-> FALSE, params |-> NoParams, result |-> NoResult,
               settled |-> "pending", thumbPath |-> "", snap |-> NoSnap,
               endWrites |-> 0]
NoResponse == [status |-> 0, error |-> "", message |-> Undefined, file |-> ""]
NoArg      == [fn |-> "none"]

InitRequests ==
    /\ pc           = [p \in Procs |-> "idle"]
    /\ via          = [p \in Procs |-> "direct"]
    /\ query        = [p \in Procs |-> NoParams]
    /\ params       = [p \in Procs |-> NoParams]
    /\ imageFile    = [p \in Procs |-> NoImage]
    /\ outputFormat = [p \in Procs |-> ""]
    /\ thumbPath    = [p \in Procs |-> ""]
    /\ sharpFormat  = [p \in Procs |-> NoOptions]
    /\ settled      = [p \in Procs |-> "pending"]
    /\ result       = [p \in Procs |-> NoResult]
    /\ thrown       = [p \in Procs |-> <<>>]
    /\ ops          = [p \in Procs |-> {}]
    /\ snap         = [p \in Procs |-> NoSnap]
    /\ calls        = [p \in Procs |-> 0]
    /\ prev         = [p \in Procs |-> NoPrev]
    /\ response     = [p \in Procs |-> NoResponse]

\* The cache directory starts empty; it may or may not exist yet.
InitFs(dirs) ==
    /\ full \in dirs
    /\ thumbDirExists \in BOOLEAN
    /\ thumb = {}
    /\ writes = 0

Init ==
    /\ InitFs(ConcSourceDirs)
    /\ InitRequests
    /\ arg = NoArg
    /\ ret = NoArg

InitSeq ==
    /\ InitFs(SourceDirs)
    /\ InitRequests
    /\ arg = NoArg
    /\ ret = NoArg


(***************************************************************************)
(* The cache directory.                                                     *)
(***************************************************************************)
ThumbFiles(t) == { c.path : c \in t }
CellAt(t, path) == CHOOSE c \in t : c.path = path

\* An encoder that empties the directory it writes to.
OpenFileAlone(t, path, format, writer) ==
    { [path |-> path, state |-> "partial", format |-> format, writer |-> writer] }

\* toFile(path) opening its output: the file exists from here on, incomplete.
OpenFile(t, path, format, writer) ==
    { c \in t : c.path # path }
        \cup { [path |-> path, state |-> "partial", format |-> format, writer |-> writer] }

\* A write that leaves an already complete file as it is.
CloseFileKeepFirst(t, path, format, writer) ==
    IF \E c \in t : c.path = path /\ c.state = "complete"
      THEN t
      ELSE { c \in t : c.path # path }
             \cup { [path |-> path, state |-> "complete", format |-> format,
                     writer |-> writer] }

\* toFile(path) having written the whole image.
CloseFile(t, path, format, writer) ==
    { c \in t : c.path # path }
        \cup { [path |-> path, state |-> "complete", format |-> format, writer |-> writer] }

\* A cache check that never finds the file.
cacheHitNever(t, path) == FALSE

\* fileExists(thumbPath), line 205
cacheHit(t, path) == fileExists(ThumbFiles(t), path)

\* sharp's resize accepts positive integers only, and throws otherwise.
ResizeAccepts(width, height) ==
    /\ ToNumber(width).t = "num"  /\ ToNumber(width).n > 0
    /\ ToNumber(height).t = "num" /\ ToNumber(height).n > 0

(***************************************************************************)
(* resizeImage.                                                             *)
(***************************************************************************)
\* A catch block that lets the exception escape.
catchRethrow(exc) == [settled |-> "rejected", result |-> NoResult]

\* catch (error) { return { success: false, error: ... } }
catchOutcome(exc) ==
    [settled |-> "fulfilled",
     result  |-> Failure(Str(IF exc.isError THEN exc.message ELSE MsgUnknownError))]

\* A caller that runs the call again whenever it settles.
AfterCallRetry(p) == IF via[p] = "http" THEN "respond" ELSE "validate"

\* Where control goes when resizeImage settles.
AfterCall(p) == IF via[p] = "http" THEN "respond" ELSE "done"

\* return r
Return(p, r) ==
    /\ result'  = [result EXCEPT ![p] = r]
    /\ settled' = [settled EXCEPT ![p] = "fulfilled"]
    /\ thrown'  = thrown
    /\ pc'      = [pc EXCEPT ![p] = AfterCall(p)]

\* throw exc, inside the try block
Throw(p, exc) ==
    /\ result'  = [result EXCEPT ![p] = catchOutcome(exc).result]
    /\ settled' = [settled EXCEPT ![p] = catchOutcome(exc).settled]
    /\ thrown'  = [thrown EXCEPT ![p] = Append(@, exc)]
    /\ pc'      = [pc EXCEPT ![p] = AfterCall(p)]

\* resizeImage(prm) is invoked.
Invoke(p, prm) ==
    /\ params'       = [params EXCEPT ![p] = prm]
    /\ pc'           = [pc EXCEPT ![p] = "validate"]
    /\ imageFile'    = [imageFile EXCEPT ![p] = NoImage]
    /\ outputFormat' = [outputFormat EXCEPT ![p] = ""]
    /\ thumbPath'    = [thumbPath EXCEPT ![p] = ""]
    /\ sharpFormat'  = [sharpFormat EXCEPT ![p] = NoOptions]
    /\ settled'      = [settled EXCEPT ![p] = "pending"]
    /\ result'       = [result EXCEPT ![p] = NoResult]
    /\ thrown'       = [thrown EXCEPT ![p] = <<>>]
    /\ ops'          = [ops EXCEPT ![p] = {}]
    /\ snap'         = [snap EXCEPT ![p] = [files |-> ThumbFiles(thumb), writes |-> writes]]

\* A direct call resizeImage(prm).
StartDirect(p, prm) ==
    /\ via'      = [via EXCEPT ![p] = "direct"]
    /\ query'    = [query EXCEPT ![p] = NoParams]
    /\ response' = [response EXCEPT ![p] = NoResponse]
    /\ Invoke(p, prm)

BadRequest(error, message) ==
    [status |-> 400, error |-> error, message |-> Str(message), file |-> ""]

\* The two guards with the width/height guard first.
preCheckDimensionsFirst(q) ==
    IF ~Truthy(q.width) \/ ~Truthy(q.height)
      THEN BadRequest("Missing required parameters",
                      "Both width and height parameters are required")
    ELSE IF ~Truthy(q.filename)
      THEN BadRequest("Missing required parameter: filename",
                      "Please provide a filename parameter")
    ELSE NoResponse

\* images.ts, lines 11-25: the guards ahead of resizeImage; NoResponse when
\* both pass.
preCheck(q) ==
    IF ~Truthy(q.filename)
      THEN BadRequest("Missing required parameter: filename",
                      "Please provide a filename parameter")
    ELSE IF ~Truthy(q.width) \/ ~Truthy(q.height)
      THEN BadRequest("Missing required parameters",
                      "Both width and height parameters are required")
    ELSE NoResponse

\* GET /api/images up to the call of resizeImage (images.ts, lines 9-34).
StartHttp(p, q) ==
    /\ via'   = [via EXCEPT ![p] = "http"]
    /\ query' = [query EXCEPT ![p] = q]
    /\ IF preCheck(q) # NoResponse
         THEN /\ response' = [response EXCEPT ![p] = preCheck(q)]
              /\ pc'       = [pc EXCEPT ![p] = "done"]
              /\ params'   = [params EXCEPT ![p] = NoParams]
              /\ settled'  = [settled EXCEPT ![p] = "pending"]
              /\ result'   = [result EXCEPT ![p] = NoResult]
              /\ thrown'   = [thrown EXCEPT ![p] = <<>>]
              /\ ops'      = [ops EXCEPT ![p] = {}]
              /\ snap'     = [snap EXCEPT ![p] =
                                [files |-> ThumbFiles(thumb), writes |-> writes]]
              /\ imageFile'    = [imageFile EXCEPT ![p] = NoImage]
              /\ outputFormat' = [outputFormat EXCEPT ![p] = ""]
              /\ thumbPath'    = [thumbPath EXCEPT ![p] = ""]
              /\ sharpFormat'  = [sharpFormat EXCEPT ![p] = NoOptions]
         ELSE /\ response' = [response EXCEPT ![p] = NoResponse]
              /\ Invoke(p, Params(q.filename, ToNumber(q.width), ToNumber(q.height),
                                  IF Truthy(q.format) THEN q.format ELSE Undefined))

\* A caller's first direct call.
Call(p, inputs) ==
    /\ pc[p] = "idle"
    /\ \E prm \in inputs : StartDirect(p, prm)
    /\ calls' = [calls EXCEPT ![p] = 1]
    /\ UNCHANGED <<fsVars, prev, pureVars>>

\* A client's first HTTP request.
HttpGet(p, inputs) ==
    /\ pc[p] = "idle"
    /\ \E q \in inputs : StartHttp(p, q)
    /\ calls' = [calls EXCEPT ![p] = 1]
    /\ UNCHANGED <<fsVars, prev, pureVars>>

\* The caller repeats the call it has finished, with identical parameters.
Again(p) ==
    /\ pc[p] = "done"
    /\ calls[p] < MaxCalls
    /\ calls' = [calls EXCEPT ![p] = @ + 1]
    /\ prev'  = [prev EXCEPT ![p] =
                   [called |-> TRUE, params |-> params[p], result |-> result[p],
                    settled |-> settled[p], thumbPath |-> thumbPath[p],
                    snap |-> snap[p], endWrites |-> writes]]
    /\ IF via[p] = "http" THEN StartHttp(p, query[p]) ELSE StartDirect(p, params[p])
    /\ UNCHANGED <<fsVars, pureVars>>

\* Lines 165-175: validate, fail fast.
Validate(p) ==
    /\ pc[p] = "validate"
    /\ LET validation == validateResizeParams(params[p]) IN
         IF ~validation.isValid
           THEN Return(p, Failure(validation.error))
           ELSE /\ pc' = [pc EXCEPT ![p] = "locate"]
                /\ UNCHANGED <<settled, result, thrown>>
    /\ UNCHANGED <<fsVars, callVars, params, locals, ops, response, pureVars>>

\* Lines 178-199: find the source, fix the output format and the cache path.
Locate(p) ==
    /\ pc[p] = "locate"
    /\ ops' = [ops EXCEPT ![p] = @ \cup {"probe"}]
    /\ LET filename == params[p].filename.s
           found    == findImageFile(full, FullDir, filename)
           format   == outputFormatOf(params[p].format, found.extension)
       IN  IF ~found.found
             THEN /\ Return(p, Failure(Str(notFoundMessage(filename))))
                  /\ UNCHANGED locals
             ELSE /\ imageFile'    = [imageFile EXCEPT ![p] = found]
                  /\ outputFormat' = [outputFormat EXCEPT ![p] = format]
                  /\ thumbPath'    = [thumbPath EXCEPT ![p] =
                         thumbPathOf(filename, params[p].width, params[p].height,
                                     outputExtOf(format))]
                  /\ pc' = [pc EXCEPT ![p] = "ensure"]
                  /\ UNCHANGED <<sharpFormat, settled, result, thrown>>
    /\ UNCHANGED <<fsVars, callVars, params, response, pureVars>>

\* Outcomes of a promise of the file system.
Resolved      == [resolved |-> TRUE,  exc |-> NonError]
Rejected(exc) == [resolved |-> FALSE, exc |-> exc]

\* fs.mkdir(dirPath) without the recursive option: an existing directory is an
\* error.
mkdirNotRecursive(exists) ==
    IF exists
      THEN { Rejected(Err("EEXIST: file already exists, mkdir '" \o ThumbDir \o "'")) }
      ELSE {Resolved} \cup { Rejected(exc) : exc \in MkdirErrors }

\* fs.mkdir(dirPath, {recursive: true}), line 106: resolves when the directory
\* is there already; creates it otherwise, or fails for a reason of the system.
mkdir(exists) ==
    IF exists
      THEN {Resolved}
      ELSE {Resolved} \cup { Rejected(exc) : exc \in MkdirErrors }

\* ensureDirectoryExists, line 104: fs.access(dirPath).
EnsureAccess(p) ==
    /\ pc[p] = "ensure"
    /\ ops' = [ops EXCEPT ![p] = @ \cup {"access-dir"}]
    /\ pc'  = [pc EXCEPT ![p] = IF thumbDirExists THEN "check" ELSE "mkdir"]
    /\ UNCHANGED <<fsVars, callVars, params, locals, settled, result, thrown,
                   response, pureVars>>

\* ensureDirectoryExists, line 106: fs.mkdir(dirPath, {recursive: true}).
Mkdir(p) ==
    /\ pc[p] = "mkdir"
    /\ ops' = [ops EXCEPT ![p] = @ \cup {"mkdir"}]
    /\ \E outcome \in mkdir(thumbDirExists) :
          IF outcome.resolved
            THEN /\ thumbDirExists' = TRUE
                 /\ pc' = [pc EXCEPT ![p] = "check"]
                 /\ UNCHANGED <<settled, result, thrown>>
            ELSE /\ Throw(p, outcome.exc)
                 /\ UNCHANGED thumbDirExists
    /\ UNCHANGED <<full, thumb, writes, callVars, params, locals, response, pureVars>>

\* Lines 205-226: the cache check, and on a miss the encoder set-up.
CacheCheck(p) ==
    /\ pc[p] = "check"
    /\ ops' = [ops EXCEPT ![p] = @ \cup {"access-thumb"}]
    /\ IF cacheHit(thumb, thumbPath[p])
         THEN /\ Return(p, Success(thumbPath[p], TRUE))
              /\ UNCHANGED sharpFormat
         ELSE /\ sharpFormat' = [sharpFormat EXCEPT ![p] = getFormatOptions(outputFormat[p])]
              /\ IF ResizeAccepts(params[p].width, params[p].height)
                   THEN /\ pc' = [pc EXCEPT ![p] = "encode"]
                        /\ UNCHANGED <<settled, result, thrown>>
                   ELSE Throw(p, ResizeError)
    /\ UNCHANGED <<fsVars, callVars, params, imageFile, outputFormat, thumbPath,
                   response, pureVars>>

\* Lines 229-264: toFile(thumbPath) starts; it fails before opening its output
\* (the source does not decode) or opens it.
EncodeOpen(p) ==
    /\ pc[p] = "encode"
    /\ \/ /\ thumb'  = OpenFile(thumb, thumbPath[p],
                                EncoderInvoked(sharpFormat[p].format), p)
          /\ writes' = writes + 1
          /\ ops'    = [ops EXCEPT ![p] = @ \cup {"encode", "write"}]
          /\ pc'     = [pc EXCEPT ![p] = "writing"]
          /\ UNCHANGED <<settled, result, thrown>>
       \/ /\ \E exc \in EncodeErrors : Throw(p, exc)
          /\ ops'    = [ops EXCEPT ![p] = @ \cup {"encode"}]
          /\ UNCHANGED <<thumb, writes>>
    /\ UNCHANGED <<full, thumbDirExists, callVars, params, locals, response, pureVars>>

\* Lines 229-270: toFile(thumbPath) ends; the image is written whole, or the
\* write fails and leaves what it had written.
EncodeDone(p) ==
    /\ pc[p] = "writing"
    /\ \/ /\ thumb'  = CloseFile(thumb, thumbPath[p],
                                 EncoderInvoked(sharpFormat[p].format), p)
          /\ writes' = writes + 1
          /\ Return(p, Success(thumbPath[p], FALSE))
       \/ /\ \E exc \in EncodeErrors : Throw(p, exc)
          /\ UNCHANGED <<thumb, writes>>
    /\ UNCHANGED <<full, thumbDirExists, callVars, params, locals, ops, response,
                   pureVars>>

(***************************************************************************)
(* The HTTP adapter after resizeImage settles (images.ts, lines 36-62).     *)
(***************************************************************************)
\* The status test with another spelling of the phrase.
statusOfCapitalized(error) ==
    IF error.t = "str" /\ Includes(error.s, "Not Found") THEN 404 ELSE 400

statusOf(error) ==
    IF error.t = "str" /\ Includes(error.s, "not found") THEN 404 ELSE 400

Respond(p) ==
    /\ pc[p] = "respond"
    /\ pc' = [pc EXCEPT ![p] = "done"]
    /\ IF settled[p] = "rejected"
         THEN response' = [response EXCEPT ![p] =
                [status |-> 500, error |-> "Internal server error",
                 message |-> Str("An unexpected error occurred"), file |-> ""]]
         ELSE IF ~result[p].success
           THEN response' = [response EXCEPT ![p] =
                  [status  |-> statusOf(result[p].error),
                   error   |-> IF statusOf(result[p].error) = 404
                                 THEN "Image not found" ELSE "Image processing failed",
                   message |-> result[p].error, file |-> ""]]
           ELSE IF Truthy(result[p].outputPath)
             THEN \/ response' = [response EXCEPT ![p] =
                        [status |-> 200, error |-> "", message |-> Undefined,
                         file |-> result[p].outputPath.s]]
                  \/ response' = [response EXCEPT ![p] =
                        [status |-> 500, error |-> "Failed to send image",
                         message |-> Str("An error occurred while sending the resized image"),
                         file |-> ""]]
             ELSE UNCHANGED response
    /\ UNCHANGED <<fsVars, callVars, params, locals, settled, result, thrown, ops,
                   pureVars>>

(***************************************************************************)
(* Specifications.                                                          *)
(***************************************************************************)
\* Concurrent requests.
Next ==
    \E p \in Procs :
        \/ Call(p, ConcParams)
        \/ Validate(p)
        \/ Locate(p)
        \/ EnsureAccess(p)
        \/ Mkdir(p)
        \/ CacheCheck(p)
        \/ EncodeOpen(p)
        \/ EncodeDone(p)

Spec == Init /\ [][Next]_vars

\* A step of resizeImage for request p: an awaited operation returns or fails.
EngineStep(p) ==
    \/ Validate(p)
    \/ Locate(p)
    \/ EnsureAccess(p)
    \/ Mkdir(p)
    \/ CacheCheck(p)
    \/ EncodeOpen(p)
    \/ EncodeDone(p)

\* Every awaited file-system or codec operation eventually settles, so a call
\* that can take a step eventually takes one.
Fairness == \A p \in Procs : WF_vars(EngineStep(p))

\* Requests of the specification with fairness: an invalid one, one without a
\* source, one with a source.
LiveParams ==
    { Params(Str(" "), Num(50), Num(50), Undefined),
      Params(Str("y"), Num(50), Num(50), Undefined),
      Params(Str("x"), Num(50), Num(50), Undefined) }

NextLive ==
    \E p \in Procs :
        \/ Call(p, LiveParams)
        \/ EngineStep(p)

\* Concurrent requests whose awaited operations all settle.
SpecLive == Init /\ [][NextLive]_vars /\ Fairness

\* Requests of the specification in which sources are removed.
GoneParams ==
    { Params(Str("x"), Num(50), Num(50), fmt) : fmt \in {Undefined, Str("png")} }

\* Somebody removes a file of assets/full.
DeleteSource ==
    /\ \E f \in full : full' = full \ {f}
    /\ UNCHANGED <<thumbDirExists, thumb, writes, pc, callVars, params, locals,
                   settled, result, thrown, ops, response, pureVars>>

NextSourceGone ==
    \/ Call(1, GoneParams)
    \/ Again(1)
    \/ EngineStep(1)
    \/ DeleteSource

\* One caller, calling in sequence, while sources are removed from outside.
SpecSourceGone == InitSeq /\ [][NextSourceGone]_vars

\* Requests for one image and size in the formats a caller may name.
AliasParams ==
    { Params(Str("x"), Num(50), Num(50), fmt) :
        fmt \in {Undefined, Str("jpg"), Str("jpeg"), Str("JPEG"), Str("png")} }

AliasSourceDirs ==
    { {SourcePath("x", "jpg")},
      {SourcePath("x", "jpeg")},
      {SourcePath("x", "png")} }

InitAlias ==
    /\ InitFs(AliasSourceDirs)
    /\ InitRequests
    /\ arg = NoArg
    /\ ret = NoArg

\* The caller, having finished a call, makes another with parameters of its
\* choice.
CallAfresh(p, inputs) ==
    /\ pc[p] = "done"
    /\ calls[p] < MaxCalls
    /\ calls' = [calls EXCEPT ![p] = @ + 1]
    /\ prev'  = [prev EXCEPT ![p] =
                   [called |-> TRUE, params |-> params[p], result |-> result[p],
                    settled |-> settled[p], thumbPath |-> thumbPath[p],
                    snap |-> snap[p], endWrites |-> writes]]
    /\ \E prm \in inputs : StartDirect(p, prm)
    /\ UNCHANGED <<fsVars, pureVars>>

NextAlias ==
    \/ Call(1, AliasParams)
    \/ CallAfresh(1, AliasParams)
    \/ EngineStep(1)

\* One caller asking for one image and size in several formats, in sequence.
SpecAlias == InitAlias /\ [][NextAlias]_vars

\* One caller, calling in sequence, over the wide input domain.
NextSeq ==
    \/ Call(1, SeqParams)
    \/ HttpGet(1, SeqQueries)
    \/ Again(1)
    \/ Validate(1)
    \/ Locate(1)
    \/ EnsureAccess(1)
    \/ Mkdir(1)
    \/ CacheCheck(1)
    \/ EncodeOpen(1)
    \/ EncodeDone(1)
    \/ Respond(1)

SpecSeq == InitSeq /\ [][NextSeq]_vars


\* findImageFile applied to every population of the source directory.
Candidates(filename) ==
    { SourcePath(filename, SUPPORTED_FORMATS[i]) : i \in 1..Len(SUPPORTED_FORMATS) }

PureDirs == { S \cup T : S \in SUBSET Candidates("x"), T \in SUBSET {SourcePath("y", "jpg")} }

InitPure ==
    /\ full \in PureDirs
    /\ thumbDirExists = FALSE
    /\ thumb = {}
    /\ writes = 0
    /\ InitRequests
    /\ arg \in { [fn |-> "findImageFile", filename |-> f] : f \in {"x", "y"} }
    /\ ret = NoArg

ApplyFindImageFile ==
    /\ arg.fn = "findImageFile"
    /\ ret = NoArg
    /\ ret' = [fn |-> "findImageFile",
               value |-> findImageFile(full, FullDir, arg.filename)]
    /\ UNCHANGED <<fsVars, pc, callVars, params, locals, settled, result, thrown,
                   ops, response, arg>>

NextPure == ApplyFindImageFile

SpecPure == InitPure /\ [][NextPure]_vars

(***************************************************************************)
(* Properties.                                                              *)
(***************************************************************************)
\* A request the adapter answered without calling resizeImage.
PreRejected(p) == via[p] = "http" /\ pc[p] = "done" /\ settled[p] = "pending"

\* resizeImage has been invoked for the current request of p.
Invoked(p) == pc[p] # "idle" /\ ~PreRejected(p)

\* resizeImage has settled for the current request of p.
Settled(p) == Invoked(p) /\ pc[p] \in {"respond", "done"}

PastValidate(p) == Invoked(p) /\ pc[p] # "validate"
PastLocate(p)   == PastValidate(p) /\ pc[p] # "locate"

SourceExists(filename) == Candidates(filename) \cap full # {}

\* The request of p is valid, its source exists, and it is the repeat of a call
\* that started with no file at its cache path.
RepeatOfFreshCall(p) ==
    /\ prev[p].called
    /\ Settled(p)
    /\ params[p] = prev[p].params
    /\ validateResizeParams(params[p]).isValid
    /\ SourceExists(params[p].filename.s)
    /\ prev[p].thumbPath \notin prev[p].snap.files

SecondCallIsCacheHit(p) ==
    /\ prev[p].result.success /\ prev[p].result.cached = "false"
    /\ result[p].success /\ result[p].cached = "true"
    /\ result[p].outputPath = prev[p].result.outputPath
    /\ writes = prev[p].endWrites

C2_CacheHitShortCircuit ==
    /\ [][\A p \in Procs :
            (pc[p] = "check" /\ pc'[p] # "check" /\ thumbPath[p] \in ThumbFiles(thumb))
                => /\ result'[p] = Success(thumbPath[p], TRUE)
                   /\ settled'[p] = "fulfilled"
                   /\ pc'[p] \in {"respond", "done"}
                   /\ thumb' = thumb /\ writes' = writes
                   /\ ops'[p] \cap {"encode", "write"} = {}]_vars
    /\ [](\A p \in Procs :
            (Settled(p) /\ thumbPath[p] \in snap[p].files /\ "access-thumb" \in ops[p])
                => /\ result[p] = Success(thumbPath[p], TRUE)
                   /\ ops[p] \cap {"encode", "write"} = {}
                   /\ writes = snap[p].writes)

C2_Witness ==
    /\ Settled(1)
    /\ thumbPath[1] \in snap[1].files
    /\ result[1] = Success(PathJoin(ThumbDir, "x_50x50.png"), TRUE)

\* C3: no request returns cached=true for a file that is still being written:
\* a cache check that hits finds a completely written file.
C3_NoPartialFileServed ==
    [][\A p \in Procs :
          (pc[p] = "check" /\ pc'[p] # "check" /\ result'[p].cached = "true")
              => CellAt(thumb, thumbPath[p]).state = "complete"]_vars

\* C4: resizeImage never rejects: once it has settled it has returned a
\* ProcessingResult, and whenever an exception was raised inside it (directory
\* creation, resize, decode, encode) that result has success=false and an error
\* string.
C4_NeverPropagates ==
    \A p \in Procs :
        /\ settled[p] # "rejected"
        /\ Settled(p) => settled[p] = "fulfilled"
        /\ (Invoked(p) /\ Len(thrown[p]) > 0)
              => /\ Settled(p)
                 /\ result[p].success = FALSE
                 /\ result[p].error.t = "str"
                 /\ result[p].outputPath = Undefined
                 /\ result[p].cached = "absent"

C4_Witness ==
    /\ Settled(1)
    /\ Len(thrown[1]) = 1
    /\ "write" \in ops[1]
    /\ result[1].success = FALSE


\* The four checks of the validator as the specification lists them.
FilenameBlank(prm)   == prm.filename.t # "str" \/ Trim(prm.filename.s) = ""
DimensionAbsent(prm) == prm.width.t \in {"null", "undefined"}
                            \/ prm.height.t \in {"null", "undefined"}
DimensionNotANumber(prm) == ToNumber(prm.width) = NaN \/ ToNumber(prm.height) = NaN
DimensionNotPositive(prm) ==
    \/ ToNumber(prm.width) = NegInf  \/ ToNumber(prm.height) = NegInf
    \/ (ToNumber(prm.width).t = "num"  /\ ToNumber(prm.width).n < 1)
    \/ (ToNumber(prm.height).t = "num" /\ ToNumber(prm.height).n < 1)

FirstFailingCheck(prm) ==
    CASE FilenameBlank(prm)        -> MsgFilenameRequired
      [] DimensionAbsent(prm)      -> MsgBothRequired
      [] DimensionNotANumber(prm)  -> MsgValidNumbers
      [] DimensionNotPositive(prm) -> MsgPositiveNumbers
      [] OTHER                     -> ""

\* C5: once a request is past validation, it has failed with the message of
\* the first failing check in the order filename, presence, number, positive,
\* and it has gone on to the source lookup exactly when no check fails.
C5_ValidationOrder ==
    \A p \in Procs :
        PastValidate(p) =>
            IF FirstFailingCheck(params[p]) # ""
              THEN /\ Settled(p)
                   /\ result[p] = Failure(Str(FirstFailingCheck(params[p])))
                   /\ ops[p] = {}
              ELSE pc[p] = "locate" \/ "probe" \in ops[p]

C5_Witness ==
    /\ Settled(1)
    /\ params[1].filename = Str("x")
    /\ params[1].width = Str("abc")
    /\ params[1].height = Undefined
    /\ result[1].error = Str(MsgBothRequired)

Finite(v) == ToNumber(v).t = "num"

\* C6: a request with a non-blank filename and both dimensions present, one of
\* them not coercible to a finite number (NaN or infinite), fails validation
\* with 'Width and height must be valid numbers'.
C6_NonFiniteRejected ==
    \A p \in Procs :
        ( /\ PastValidate(p)
          /\ ~FilenameBlank(params[p])
          /\ ~DimensionAbsent(params[p])
          /\ (~Finite(params[p].width) \/ ~Finite(params[p].height)) )
            => /\ Settled(p)
               /\ result[p] = Failure(Str(MsgValidNumbers))

\* C7: a valid request whose filename has no file under any supported
\* extension fails with an error that contains the filename and 'not found',
\* and the HTTP adapter answers it 404.
C7_NotFoundReported ==
    \A p \in Procs :
        ( /\ PastLocate(p)
          /\ FirstFailingCheck(params[p]) = ""
          /\ ~SourceExists(params[p].filename.s) )
            => /\ Settled(p)
               /\ result[p].success = FALSE
               /\ result[p].error.t = "str"
               /\ Includes(result[p].error.s, params[p].filename.s)
               /\ Includes(result[p].error.s, "not found")
               /\ result[p].outputPath = Undefined
               /\ (via[p] = "http" /\ pc[p] = "done")
                     => /\ response[p].status = 404
                        /\ response[p].error = "Image not found"
                        /\ response[p].message = result[p].error

C7_Witness ==
    /\ via[1] = "http"
    /\ pc[1] = "done"
    /\ query[1].filename = Str("x")
    /\ full = {SourcePath("y", "png")}
    /\ response[1].status = 404

\* Positions, in the fixed order, of the candidates that exist.
ExistingAt(filename) ==
    { i \in 1..7 :
        SourcePath(filename, <<"jpg", "jpeg", "png", "webp", "gif", "tiff", "avif">>[i])
            \in full }

Earliest(S) == CHOOSE i \in S : \A j \in S : i <= j

\* C8: findImageFile returns the existing candidate whose extension comes
\* earliest in jpg, jpeg, png, webp, gif, tiff, avif, with that extension, and
\* returns not-found exactly when none of the 7 candidates exists.
C8_SourcePrecedence ==
    ret # NoArg =>
        LET E == ExistingAt(arg.filename) IN
        IF E = {}
          THEN ret.value.found = FALSE
          ELSE /\ ret.value.found
               /\ ret.value.extension =
                    <<"jpg", "jpeg", "png", "webp", "gif", "tiff", "avif">>[Earliest(E)]
               /\ ret.value.filePath =
                    FullDir \o "/" \o arg.filename \o "." \o ret.value.extension
               /\ ret.value.filePath \in full

C8_Witness ==
    /\ ret # NoArg
    /\ arg.filename = "x"
    /\ full = {SourcePath("x", "jpeg"), SourcePath("x", "png"), SourcePath("x", "avif"),
               SourcePath("y", "jpg")}
    /\ ret.value.extension = "jpeg"

\* The cache path of C9 for an extension.
CachePathWith(prm, ext) ==
    Cwd \o "/assets/thumb/" \o prm.filename.s \o "_" \o ToStr(prm.width) \o "x"
        \o ToStr(prm.height) \o "." \o ext

\* C9 as stated: the extension is 'jpg' for the token 'jpeg' and the token
\* itself, verbatim, for every other token.
C9_ExtensionVerbatim ==
    \A p \in Procs :
        PastLocate(p) /\ imageFile[p].found =>
            thumbPath[p] = CachePathWith(params[p],
                IF outputFormat[p] = "jpeg" THEN "jpg" ELSE outputFormat[p])

\* The extension of each output format token of the input domain.
ExtensionOfToken(token) ==
    CASE token = "jpeg" -> "jpg"
      [] token = "JPEG" -> "jpeg"
      [] token = "jpg"  -> "jpg"
      [] token = "png"  -> "png"
      [] token = "Png"  -> "png"
      [] token = "webp" -> "webp"
      [] token = "gif"  -> "gif"
      [] token = "tiff" -> "tiff"
      [] token = "avif" -> "avif"
      [] token = "bmp"  -> "bmp"

\* C9 amended: the cache path is {cacheDir}/{filename}_{width}x{height}.{ext}
\* where ext is 'jpg' for the token 'jpeg' and the token in lower case for every
\* other token; (x, 50, 50, 'jpeg') resolves to assets/thumb/x_50x50.jpg.
C9_ExtensionNormalization ==
    \A p \in Procs :
        PastLocate(p) /\ imageFile[p].found =>
            /\ thumbPath[p] = CachePathWith(params[p], ExtensionOfToken(outputFormat[p]))
            /\ ( params[p] = Params(Str("x"), Num(50), Num(50), Str("jpeg"))
                   => thumbPath[p] = "/app/assets/thumb/x_50x50.jpg" )

C9_Witness ==
    /\ PastLocate(1)
    /\ outputFormat[1] = "Png"
    /\ thumbPath[1] = "/app/assets/thumb/x_50x50.png"

\* C10: an explicit format is the output format and fixes the cache path,
\* whatever source extension was located; the located extension is used only
\* when no format is given.
C10_FormatPrecedence ==
    \A p \in Procs :
        PastLocate(p) /\ imageFile[p].found =>
            IF params[p].format.t = "str" /\ params[p].format.s # ""
              THEN /\ outputFormat[p] = params[p].format.s
                   /\ thumbPath[p] =
                        CachePathWith(params[p], ExtensionOfToken(params[p].format.s))
              ELSE /\ outputFormat[p] = imageFile[p].extension
                   /\ imageFile[p].filePath
                        = SourcePath(params[p].filename.s, outputFormat[p])

C10_Witness ==
    /\ PastLocate(1)
    /\ imageFile[1].extension = "jpeg"
    /\ params[1].format = Str("png")
    /\ outputFormat[1] = "png"
    /\ thumbPath[1] = "/app/assets/thumb/x_50x50.png"



\* The encoder of each supported source extension.
EncoderOfExtension(ext) ==
    CASE ext = "jpg"  -> "jpeg"
      [] ext = "jpeg" -> "jpeg"
      [] ext = "png"  -> "png"
      [] ext = "webp" -> "webp"
      [] ext = "gif"  -> "gif"
      [] ext = "tiff" -> "tiff"
      [] ext = "avif" -> "avif"

NoFormatGiven(p) == ~(params[p].format.t = "str" /\ params[p].format.s # "")

\* The request of p has opened its output file.
Encoding(p) == Invoked(p) /\ "write" \in ops[p]

\* The file p writes is encoded in the format of the located source.
EncodedAsSource(p) ==
    (Encoding(p) /\ thumbPath[p] \in ThumbFiles(thumb)) =>
        /\ CellAt(thumb, thumbPath[p]).format = EncoderOfExtension(imageFile[p].extension)
        /\ sharpFormat[p].format = EncoderOfExtension(imageFile[p].extension)

\* C11 as stated: without an explicit format, for every supported source
\* extension, the image is encoded in the source file's own format and the
\* cache file carries the source file's own extension.
C11_FallbackOwnExtension ==
    \A p \in Procs :
        (PastLocate(p) /\ imageFile[p].found /\ NoFormatGiven(p)) =>
            /\ thumbPath[p] = CachePathWith(params[p], imageFile[p].extension)
            /\ EncodedAsSource(p)

\* C11 amended: without an explicit format the image is encoded in the source
\* file's own format, and the cache file carries the source file's own
\* extension, except that a .jpeg source is cached under the extension jpg.
C11_FormatFallback ==
    \A p \in Procs :
        (PastLocate(p) /\ imageFile[p].found /\ NoFormatGiven(p)) =>
            /\ imageFile[p].extension \in
                 {"jpg", "jpeg", "png", "webp", "gif", "tiff", "avif"}
            /\ thumbPath[p] = CachePathWith(params[p],
                    IF imageFile[p].extension = "jpeg"
                      THEN "jpg" ELSE imageFile[p].extension)
            /\ EncodedAsSource(p)

C11_Witness ==
    /\ Settled(1)
    /\ NoFormatGiven(1)
    /\ imageFile[1].extension = "tiff"
    /\ result[1] = Success("/app/assets/thumb/x_50x50.tiff", FALSE)
    /\ CellAt(thumb, thumbPath[1]).format = "tiff"


\* The encoder and options of C12 for each output format token of the input
\* domain (tokens are matched without regard to letter case).
ExpectedOptions(token) ==
    CASE token \in {"jpg", "jpeg", "JPEG"} -> [format |-> "jpeg", key |-> "quality", value |-> 90]
      [] token \in {"png", "Png"}          -> [format |-> "png", key |-> "compressionLevel", value |-> 9]
      [] token = "webp"                    -> [format |-> "webp", key |-> "quality", value |-> 90]
      [] token = "tiff"                    -> [format |-> "tiff", key |-> "quality", value |-> 90]
      [] token = "avif"                    -> [format |-> "avif", key |-> "quality", value |-> 90]
      [] token = "gif"                     -> [format |-> "gif", key |-> "none", value |-> 0]
      [] OTHER                             -> [format |-> "jpeg", key |-> "quality", value |-> 90]

\* C12: on a cache miss the encoder and options chosen for the output format
\* token are those of the table (jpg/jpeg JPEG 90, png PNG level 9, webp, tiff,
\* avif in kind 90, gif without options, anything else JPEG 90), and the encoder
\* that writes the file is the one getFormatOptions selected.
C12_EncodeDispatch ==
    \A p \in Procs :
        (Invoked(p) /\ (pc[p] \in {"encode", "writing"} \/ "write" \in ops[p])) =>
            /\ sharpFormat[p] = ExpectedOptions(outputFormat[p])
            /\ (Encoding(p) /\ thumbPath[p] \in ThumbFiles(thumb)) =>
                  /\ CellAt(thumb, thumbPath[p]).format = sharpFormat[p].format
                  /\ CellAt(thumb, thumbPath[p]).format
                        = ExpectedOptions(outputFormat[p]).format

C12_Witness ==
    /\ Settled(1)
    /\ params[1].format = Str("gif")
    /\ imageFile[1].extension = "jpg"
    /\ sharpFormat[1] = [format |-> "gif", key |-> "none", value |-> 0]
    /\ result[1].cached = "false"
    /\ CellAt(thumb, thumbPath[1]).format = "gif"


\* The error strings of the input domain that contain 'not found'.
NotFoundErrors ==
    { "Image 'x' not found in full folder. Supported formats: jpg, jpeg, png, webp, gif, tiff, avif",
      "VipsOperation: class heifsave not found" }

ValidatorMessages ==
    { "Filename is required",
      "Both width and height parameters are required",
      "Width and height must be valid numbers",
      "Width and height must be positive numbers" }

\* The adapter has answered a request for which resizeImage returned a failure.
AnsweredFailure(p) ==
    /\ via[p] = "http" /\ pc[p] = "done" /\ Invoked(p)
    /\ settled[p] = "fulfilled" /\ ~result[p].success

\* C13: a failed core result is answered 404 'Image not found' if and only if
\* its error contains 'not found', and 400 'Image processing failed' otherwise;
\* every validation failure is answered 400.
C13_StatusClassification ==
    \A p \in Procs :
        AnsweredFailure(p) =>
            /\ response[p].status \in {400, 404}
            /\ response[p].status = 404 <=> result[p].error.s \in NotFoundErrors
            /\ response[p].error = IF response[p].status = 404
                                     THEN "Image not found" ELSE "Image processing failed"
            /\ response[p].message = result[p].error
            /\ result[p].error.s \in ValidatorMessages => response[p].status = 400

C13_Witness ==
    /\ AnsweredFailure(1)
    /\ result[1].error = Str("VipsOperation: class heifsave not found")
    /\ response[1].status = 404
    /\ response[1].error = "Image not found"

C13_WitnessValidation ==
    /\ AnsweredFailure(1)
    /\ query[1].filename = Str(" ")
    /\ result[1].error = Str("Filename is required")
    /\ response[1].status = 400


Missing(v) == v = Undefined \/ v = Str("")

\* The request of p came over HTTP and has been received.
Received(p) == via[p] = "http" /\ pc[p] # "idle"

\* resizeImage was not invoked for the request of p and nothing was done for it.
NeverInvoked(p) ==
    /\ pc[p] = "done"
    /\ settled[p] = "pending"
    /\ result[p] = NoResult
    /\ ops[p] = {}
    /\ ThumbFiles(thumb) = snap[p].files
    /\ writes = snap[p].writes

\* C14: a request without filename is answered 400 'Missing required
\* parameter: filename', whatever its width and height; one with a filename
\* but without width or height is answered 400 'Missing required parameters';
\* in both cases resizeImage is not invoked and the step that answers leaves the
\* file system as it was.
C14_AdapterPreChecks ==
    /\ [](\A p \in Procs :
            Received(p) =>
                /\ Missing(query[p].filename) =>
                      /\ response[p].status = 400
                      /\ response[p].error = "Missing required parameter: filename"
                      /\ response[p].message = Str("Please provide a filename parameter")
                      /\ NeverInvoked(p)
                /\ (~Missing(query[p].filename)
                      /\ (Missing(query[p].width) \/ Missing(query[p].height))) =>
                      /\ response[p].status = 400
                      /\ response[p].error = "Missing required parameters"
                      /\ response[p].message
                            = Str("Both width and height parameters are required")
                      /\ NeverInvoked(p))
    /\ [][(\E p \in Procs : PreRejected(p)') => UNCHANGED fsVars]_vars

C14_Witness ==
    /\ Received(1)
    /\ query[1].filename = Undefined
    /\ query[1].width = Undefined
    /\ response[1].error = "Missing required parameter: filename"
    /\ calls[1] = 2


CellsAt(path) == { c \in thumb : c.path = path }

\* Both calls missed at the cache check, encoded and wrote the same path.
BothEncoded(p, q) ==
    /\ p # q
    /\ Settled(p) /\ Settled(q)
    /\ thumbPath[p] = thumbPath[q]
    /\ "write" \in ops[p] /\ "write" \in ops[q]
    /\ result[p] = Success(thumbPath[p], FALSE)
    /\ result[q] = Success(thumbPath[q], FALSE)

\* C15: two concurrent calls for the same cache path can both miss at the cache
\* check and both encode; each call that finishes its write returns
\* success=true, cached=false and is, at that moment, the writer of the whole
\* file at the path (so the call that finishes last leaves its output); at any
\* time one file at most exists at a path, and once both have returned, no
\* other call having written that path, exactly one file exists there,
\* completely written by one of the two.
C15_DuplicateEncodeRace ==
    /\ [][\A p \in Procs :
            (pc[p] = "writing" /\ pc'[p] # "writing" /\ result'[p].success)
                => /\ result'[p] = Success(thumbPath[p], FALSE)
                   /\ { c \in thumb' : c.path = thumbPath[p] }
                        = { [path   |-> thumbPath[p], state |-> "complete",
                             format |-> EncoderInvoked(sharpFormat[p].format),
                             writer |-> p] }]_vars
    /\ [](\A path \in ThumbFiles(thumb) : Cardinality(CellsAt(path)) = 1)
    /\ [](\A p, q \in Procs :
            ( /\ BothEncoded(p, q)
              /\ \A r \in Procs \ {p, q} :
                    ~(thumbPath[r] = thumbPath[p] /\ "write" \in ops[r]) )
                => /\ Cardinality(CellsAt(thumbPath[p])) = 1
                   /\ CellAt(thumb, thumbPath[p]).state = "complete"
                   /\ CellAt(thumb, thumbPath[p]).writer \in {p, q})

C15_Witness ==
    /\ BothEncoded(1, 2)
    /\ params[1] = params[2]
    /\ snap[1].files = {} /\ snap[2].files = {}
    /\ CellsAt(thumbPath[1])
         = { [path |-> PathJoin(ThumbDir, "x_50x50.jpg"), state |-> "complete",
              format |-> "jpeg", writer |-> 2] }

\* The step taken is a step of the call of p.
StepOf(p) == pc'[p] # pc[p]

\* C16 as stated: once a cache file is completely written, no step of any call
\* writes, replaces or deletes it.
C16_Immutability ==
    [][\A c \in thumb : c.state = "complete" => c \in thumb']_vars

\* C16 amended: no step deletes a cache file; a completely written cache file
\* is rewritten only by a call that started before any file existed at that path
\* (a call of the duplicate-encode race); a call that starts when the file
\* exists never writes it.
C16_CacheEntryPermanence ==
    /\ [][ThumbFiles(thumb) \subseteq ThumbFiles(thumb')]_vars
    /\ [][\A c \in thumb :
            (c.state = "complete" /\ c \notin thumb')
                => \E p \in Procs :
                      /\ StepOf(p)
                      /\ pc[p] \in {"encode", "writing"}
                      /\ thumbPath[p] = c.path
                      /\ c.path \notin snap[p].files]_vars
    /\ [][\A p \in Procs :
            (StepOf(p) /\ pc[p] \notin {"idle", "done"} /\ thumbPath[p] \in snap[p].files)
                => (thumb' = thumb /\ writes' = writes)]_vars

C16_Witness ==
    /\ Settled(2)
    /\ thumbPath[2] \in snap[2].files
    /\ result[2] = Success(thumbPath[2], TRUE)
    /\ CellAt(thumb, thumbPath[2]).state = "complete"
    /\ CellAt(thumb, thumbPath[2]).writer = 1


\* The call of p started with no file at its cache path and failed in the
\* encode step.
EncodeFailed(p) ==
    /\ Settled(p)
    /\ ~result[p].success
    /\ "encode" \in ops[p]
    /\ thumbPath[p] \notin snap[p].files

\* C17: a call whose encode step fails leaves no file at its cache path, and
\* the identical call that follows it does not return cached=true.
C17_FailedEncodeLeavesNoEntry ==
    \A p \in Procs :
        /\ EncodeFailed(p) => thumbPath[p] \notin ThumbFiles(thumb)
        /\ ( /\ prev[p].called
             /\ Settled(p)
             /\ params[p] = prev[p].params
             /\ ~prev[p].result.success
             /\ prev[p].thumbPath # ""
             /\ prev[p].thumbPath \notin prev[p].snap.files )
              => result[p].cached # "true"


\* The cache directory holds what it held when the call of p started.
CacheAsAtStart(p) == ThumbFiles(thumb) = snap[p].files /\ writes = snap[p].writes

\* C18: the steps of a call run in the order validate, locate, ensure the cache
\* directory, cache check, encode, and the call stops at the first failure: a
\* call that fails validation has performed no file-system operation; a call
\* whose source is not found has only probed the source directory, has not
\* created the cache directory and has written no file; and the validate and
\* locate steps leave the file system as it was.
C18_EarlyTermination ==
    /\ [](\A p \in Procs :
            Invoked(p) =>
                /\ "probe" \in ops[p] => FirstFailingCheck(params[p]) = ""
                /\ "access-dir" \in ops[p]
                      => ("probe" \in ops[p] /\ SourceExists(params[p].filename.s))
                /\ "mkdir" \in ops[p] => "access-dir" \in ops[p]
                /\ "access-thumb" \in ops[p] => "access-dir" \in ops[p]
                /\ "encode" \in ops[p] => "access-thumb" \in ops[p]
                /\ "write" \in ops[p] => "encode" \in ops[p]
                /\ (PastValidate(p) /\ FirstFailingCheck(params[p]) # "") =>
                      /\ Settled(p) /\ ~result[p].success
                      /\ ops[p] = {}
                      /\ CacheAsAtStart(p)
                /\ ( /\ PastLocate(p)
                     /\ FirstFailingCheck(params[p]) = ""
                     /\ ~SourceExists(params[p].filename.s) ) =>
                      /\ Settled(p) /\ ~result[p].success
                      /\ ops[p] = {"probe"}
                      /\ CacheAsAtStart(p))
    /\ [][\A p \in Procs :
            (StepOf(p) /\ pc[p] \in {"validate", "locate"}) => UNCHANGED fsVars]_vars

C18_Witness ==
    /\ Settled(1)
    /\ params[1].filename = Str("x")
    /\ FirstFailingCheck(params[1]) = ""
    /\ ~SourceExists("x")
    /\ result[1].error = Str(notFoundMessage("x"))
    /\ ops[1] = {"probe"}
    /\ ~thumbDirExists
    /\ thumb = {}


\* The exception the call of p caught.
Caught(p) == thrown[p][Len(thrown[p])]

CarriesMessage(exc) == exc.isError /\ exc.message # ""

\* C19: a call that caught an exception returns the exception's message, or
\* the generic fallback when the exception carries no message (it is no Error,
\* or its message is empty); the error of a failed result is never empty or
\* missing.
C19_FailureMessageFallback ==
    \A p \in Procs :
        /\ (Settled(p) /\ thrown[p] # <<>>) =>
              result[p].error = Str(IF CarriesMessage(Caught(p))
                                      THEN Caught(p).message
                                      ELSE MsgUnknownError)
        /\ (Settled(p) /\ ~result[p].success) =>
              (result[p].error.t = "str" /\ result[p].error.s # "")


\* One dimension of the request is the number 0, the other is present and
\* coerces to a number.
ZeroDimension(prm) ==
    /\ prm.width = Num(0) \/ prm.height = Num(0)
    /\ ~DimensionAbsent(prm)
    /\ ~DimensionNotANumber(prm)

\* C20: a request with a non-blank filename and width 0 or height 0, the other
\* dimension being a valid number, fails validation with 'Width and height must
\* be positive numbers', not with 'Both width and height parameters are
\* required'.
C20_ZeroIsPresent ==
    \A p \in Procs :
        (PastValidate(p) /\ ~FilenameBlank(params[p]) /\ ZeroDimension(params[p]))
            => /\ Settled(p)
               /\ result[p] = Failure(Str(MsgPositiveNumbers))
               /\ result[p].error # Str(MsgBothRequired)

C20_Witness ==
    /\ Settled(1)
    /\ via[1] = "direct"
    /\ params[1].filename = Str("x")
    /\ params[1].width = Num(0)
    /\ params[1].height = Num(50)
    /\ result[1].error = Str("Width and height must be positive numbers")


\* ensureDirectoryExists has completed for the call of p.
DirectoryEnsured(p) ==
    \/ pc[p] \in {"check", "encode", "writing"}
    \/ "access-thumb" \in ops[p]

\* The call of p failed in the creation of the cache directory.
MkdirFailed(p) ==
    /\ Settled(p)
    /\ "mkdir" \in ops[p]
    /\ "access-thumb" \notin ops[p]

\* C21: once ensureDirectoryExists has completed the cache directory exists; a
\* directory that exists when it is looked up is no error; and a call that
\* found the directory absent and attempts to create it after another call has
\* created it goes on to the cache check without an exception: a call that
\* fails in the creation fails for a reason of the system only.
C21_DirectoryCreationIdempotent ==
    /\ [](\A p \in Procs : DirectoryEnsured(p) => thumbDirExists)
    /\ [][\A p \in Procs :
            (StepOf(p) /\ pc[p] \in {"ensure", "mkdir"} /\ thumbDirExists)
                => /\ pc'[p] = "check"
                   /\ thrown'[p] = thrown[p]
                   /\ settled'[p] = "pending"
                   /\ thumbDirExists']_vars
    /\ [](\A p \in Procs :
            MkdirFailed(p) => Caught(p) \in MkdirErrors)

C21_Witness ==
    /\ "mkdir" \in ops[1] /\ "mkdir" \in ops[2]
    /\ Settled(1) /\ Settled(2)
    /\ result[1].success /\ result[2].success
    /\ thumbDirExists


\* The terminal states of a call.
ValidationFailure(p) == ~result[p].success /\ ops[p] = {} /\ thrown[p] = <<>>
NotFoundFailure(p)   == ~result[p].success /\ ops[p] = {"probe"} /\ thrown[p] = <<>>
CacheHit(p)          == result[p] = Success(thumbPath[p], TRUE)
                            /\ "encode" \notin ops[p] /\ thrown[p] = <<>>
EncodeSuccess(p)     == result[p] = Success(thumbPath[p], FALSE)
                            /\ "write" \in ops[p] /\ thrown[p] = <<>>
CaughtFailure(p)     == ~result[p].success /\ Len(thrown[p]) = 1

TerminalKinds(p) ==
    { k \in {"validation", "not-found", "hit", "encoded", "caught"} :
        \/ k = "validation" /\ ValidationFailure(p)
        \/ k = "not-found"  /\ NotFoundFailure(p)
        \/ k = "hit"        /\ CacheHit(p)
        \/ k = "encoded"    /\ EncodeSuccess(p)
        \/ k = "caught"     /\ CaughtFailure(p) }

\* C22: when every awaited operation settles, every call that was started
\* eventually settles; a settled call is in exactly one of the terminal states
\* validation failure, not-found, cache hit, encode success, caught failure,
\* with a fulfilled promise; and its result, once produced, is never replaced.
C22_Termination ==
    /\ \A p \in Procs : (pc[p] # "idle") ~> (pc[p] = "done" /\ settled[p] = "fulfilled")
    /\ [](\A p \in Procs :
            /\ Settled(p) => (settled[p] = "fulfilled" /\ Cardinality(TerminalKinds(p)) = 1)
            /\ (Invoked(p) /\ ~Settled(p)) => (settled[p] = "pending" /\ result[p] = NoResult))
    /\ [][\A p \in Procs :
            settled[p] # "pending"
                => (settled'[p] = settled[p] /\ result'[p] = result[p] /\ pc'[p] = pc[p])]_vars

C22_Witness ==
    /\ Settled(1) /\ Settled(2)
    /\ TerminalKinds(1) = {"caught"}
    /\ TerminalKinds(2) = {"hit"}


\* No other call has resolved the cache path of the call of p.
OwnPath(p) ==
    /\ thumbPath[p] # ""
    /\ \A q \in Procs \ {p} : thumbPath[q] # thumbPath[p]

FileOf(p, state) ==
    [path |-> thumbPath[p], state |-> state,
     format |-> EncoderInvoked(sharpFormat[p].format), writer |-> p]

\* The result and the file a call leaves when it runs alone on an empty cache:
\* the whole image and cached=false, or a caught failure with the part of the
\* file written before it, if any.
AsWhenAlone(p) ==
    IF result[p].success
      THEN /\ result[p] = Success(thumbPath[p], FALSE)
           /\ CellsAt(thumbPath[p]) = {FileOf(p, "complete")}
      ELSE /\ CaughtFailure(p)
           /\ result[p] = catchOutcome(Caught(p)).result
           /\ Caught(p) \in MkdirErrors \cup EncodeErrors
           /\ CellsAt(thumbPath[p])
                = IF "write" \in ops[p] THEN {FileOf(p, "partial")} ELSE {}

\* C23: a call whose cache path no concurrent call shares settles with the
\* result, and leaves at its path the file, of a run alone; and no step of a
\* call creates, changes or removes a file at a path other than its own.
C23_DistinctKeysIndependent ==
    /\ [](\A p \in Procs : (Settled(p) /\ OwnPath(p)) => AsWhenAlone(p))
    /\ [][\A p \in Procs :
            StepOf(p) =>
                /\ \A c \in thumb  : c.path # thumbPath[p] => c \in thumb'
                /\ \A c \in thumb' : c.path # thumbPath[p] => c \in thumb]_vars

C23_Witness ==
    /\ Settled(1) /\ Settled(2)
    /\ OwnPath(1) /\ OwnPath(2)
    /\ thumbPath[1] = PathJoin(ThumbDir, "x_50x50.jpg")
    /\ thumbPath[2] = PathJoin(ThumbDir, "x_50x50.png")
    /\ result[1] = Success(thumbPath[1], FALSE)
    /\ result[2] = Success(thumbPath[2], FALSE)
    /\ CellAt(thumb, thumbPath[1]).writer = 1
    /\ CellAt(thumb, thumbPath[2]).writer = 2


\* The shape of a ProcessingResult.
WellShaped(r) ==
    IF r.success
      THEN /\ r.outputPath.t = "str" /\ r.outputPath.s # ""
           /\ r.cached \in {"true", "false"}
           /\ r.error = Undefined
      ELSE /\ r.error.t = "str"
           /\ r.outputPath = Undefined
           /\ r.cached = "absent"

\* The adapter has finished with a request for which it invoked resizeImage.
Answered(p) == via[p] = "http" /\ Invoked(p) /\ pc[p] = "done"

\* C24: every result resizeImage returns has outputPath and cached set and no
\* error when success=true, and an error and neither outputPath nor cached when
\* success=false; and the adapter has sent a response (200, 400, 404 or 500)
\* whenever it has finished with a result.
C24_ResultShape ==
    \A p \in Procs :
        /\ Settled(p) => WellShaped(result[p])
        /\ Answered(p) =>
              /\ response[p] # NoResponse
              /\ response[p].status \in {200, 400, 404, 500}
              /\ response[p].status = 200 => result[p].success
              /\ response[p].status \in {400, 404} => ~result[p].success

C24_Witness ==
    /\ Answered(1)
    /\ result[1].success
    /\ result[1].cached = "false"
    /\ response[1].status = 200
    /\ response[1].file = PathJoin(ThumbDir, "x_50x50.png")


\* The cache holds the file the previous, identical call of p produced.
CachedByPreviousCall(p) ==
    /\ prev[p].called
    /\ params[p] = prev[p].params
    /\ prev[p].result.success
    /\ prev[p].thumbPath \in ThumbFiles(thumb)

\* C25: the lookup of a source that is absent under all 7 extensions ends the
\* call with success=false and the 'not found' error, whatever the cache holds;
\* and a call that returned cached=true has found its source before, in the
\* same call.
C25_HitRequiresSource ==
    /\ [][\A p \in Procs :
            (StepOf(p) /\ pc[p] = "locate" /\ ~SourceExists(params[p].filename.s))
                => /\ result'[p] = Failure(Str(notFoundMessage(params[p].filename.s)))
                   /\ Includes(result'[p].error.s, "not found")
                   /\ pc'[p] \in {"respond", "done"}]_vars
    /\ [](\A p \in Procs :
            /\ (Settled(p) /\ ~imageFile[p].found) => result[p].cached # "true"
            /\ result[p].cached = "true" =>
                  /\ "probe" \in ops[p]
                  /\ imageFile[p].found
                  /\ imageFile[p].filePath \in Candidates(params[p].filename.s))

C25_Witness ==
    /\ CachedByPreviousCall(1)
    /\ Settled(1)
    /\ ~SourceExists("x")
    /\ ~imageFile[1].found
    /\ CellAt(thumb, prev[1].thumbPath).state = "complete"
    /\ result[1] = Failure(Str(notFoundMessage("x")))


\* The token names a supported format, in any letter case.
Recognized(token) ==
    \E i \in 1..Len(SUPPORTED_FORMATS) : ToLowerCase(token) = SUPPORTED_FORMATS[i]

\* The lower-case extension that goes with an encoder.
CanonicalExtension(encoder) == IF encoder = "jpeg" THEN "jpg" ELSE encoder

\* C26: for every request with positive finite dimensions whose output format
\* token is a supported format in any letter case, the extension of the cache path is the canonical lower-case
\* extension of the encoder used (jpg for JPEG, else the encoder's name), so
\* that tokens differing in letter case only give the same cache path.
C26_ExtensionMatchesEncoding ==
    \A p \in Procs :
        ( /\ PastLocate(p) /\ imageFile[p].found
          /\ ResizeAccepts(params[p].width, params[p].height)
          /\ Recognized(outputFormat[p]) )
            => thumbPath[p]
                 = CachePathWith(params[p],
                     CanonicalExtension(
                         EncoderInvoked(getFormatOptions(outputFormat[p]).format)))


\* The ways a request for a given filename, width and height gets its output
\* format: an explicit token, or none and the extension of the source.
Routes ==
    { [format |-> f, extension |-> SUPPORTED_FORMATS[i]] :
        f \in Formats, i \in 1..Len(SUPPORTED_FORMATS) }

RouteFormat(r) == outputFormatOf(r.format, r.extension)
RouteExtension(r) == outputExtOf(RouteFormat(r))

\* The cache path of a request is its filename and dimensions followed by the
\* extension of its route: two routes share a path when they share an extension.
RoutePath(prm, ext) == thumbPathOf(prm.filename.s, prm.width, prm.height, ext)

\* The extension and the encoder options of every route.
RouteTable == { <<RouteExtension(r), getFormatOptions(RouteFormat(r))>> : r \in Routes }

\* The encoder options selected by the routes that give an extension.
OptionsByExtension(ext) == { t[2] : t \in { u \in RouteTable : u[1] = ext } }

\* The routes of C27: 'jpg', 'jpeg', or no format with a .jpg or .jpeg source.
JpegRoutes ==
    { r \in Routes : (r.format \in {Str("jpg"), Str("jpeg")})
                        \/ (r.format = Undefined /\ r.extension \in {"jpg", "jpeg"}) }

JpegRouteExtensions == { RouteExtension(r) : r \in JpegRoutes }

\* C27: every route by which a request for the same filename, width and height
\* resolves to the cache path of a call selects the encoder and options that
\* call selects; the routes 'jpg', 'jpeg' and no format with a .jpg or .jpeg
\* source all resolve to one path; and the file at the cache path of a call,
\* whichever call wrote it, is in the encoding that call would produce.
C27_AliasedKeysAgree ==
    \A p \in Procs :
        (PastLocate(p) /\ imageFile[p].found) =>
            /\ thumbPath[p] = RoutePath(params[p], outputExtOf(outputFormat[p]))
            /\ OptionsByExtension(outputExtOf(outputFormat[p]))
                  = { getFormatOptions(outputFormat[p]) }
            /\ JpegRouteExtensions = {"jpg"}
            /\ thumbPath[p] \in ThumbFiles(thumb)
                  => CellAt(thumb, thumbPath[p]).format
                        = EncoderInvoked(getFormatOptions(outputFormat[p]).format)

C27_Witness ==
    /\ Settled(1)
    /\ prev[1].called
    /\ prev[1].params.format = Undefined
    /\ prev[1].result = Success(PathJoin(ThumbDir, "x_50x50.jpg"), FALSE)
    /\ params[1].format = Str("jpg")
    /\ imageFile[1].extension = "jpeg"
    /\ result[1] = Success(PathJoin(ThumbDir, "x_50x50.jpg"), TRUE)
    /\ CellAt(thumb, thumbPath[1]).state = "complete"
    /\ CellAt(thumb, thumbPath[1]).format = "jpeg"

====
